---- MODULE Spec2Model ----
(***************************************************************************)
(* Back_End/fyp.py and Back_End/main.py: temporal anomaly segmentation,    *)
(* the byte-range file endpoint, the per-video processing run and the      *)
(* artifact cleanup sweep.                                                 *)
(*                                                                         *)
(* Four specifications share this module, one per part of the program:     *)
(*   SegSpec    find_abnormal_segments applied to bounded inputs           *)
(*   RangeSpec  get_original / get_clip / _range_file on one request       *)
(*   RunSpec    one processing run, frame by frame and clip by clip        *)
(*   ServerSpec upload requests and clean_dirs over the shared directories *)
(* Variables that a specification does not use are parked at a fixed value.*)
(***************************************************************************)
EXTENDS Integers, Sequences, FiniteSets, TLC

VARIABLES
    \* find_abnormal_segments
    segInput,       \* the list as the caller passed it
    timestamps,     \* the caller's list object (sorted in place by the call)
    gap,            \* gap tolerance
    segs,           \* returned list of <<s, e>>
    segPc,          \* "ready" | "done"
    \* _range_file
    reqEndpoint,    \* "originals" | "clips"
    reqExists,      \* os.path.exists(path)
    reqSize,        \* os.path.getsize(path)
    reqRange,       \* request.headers.get("range")
    resp,           \* the response, NoResp before the handler ran
    rangePc,        \* "request" | "served"
    \* process_video from the opening of the saved upload on (main() alike)
    runPc,          \* "open" | "loop" | "export" | "summarize" | "done" | "error"
    fps,            \* cap.get(CAP_PROP_FPS) or 30.0
    total,          \* int(cap.get(CAP_PROP_FRAME_COUNT)), the container's report
    idx,            \* frames decoded so far
    prev,           \* whether prev is not None
    flow,           \* mean flow magnitude of the last pair, in tenths
    times,          \* anomaly timestamps, in ticks of 1/fps second
    segments,       \* find_abnormal_segments(times, GAP_S)
    srcOpenable,    \* whether VideoCapture(OUT_FULL) in export_clip opens
    clip_files,     \* the (outfn, (s, e)) list, with the bounds each clip was cut at
    clipDir,        \* numbers i of the clip_{i:02d} files in CLIP_DIR
    parts,          \* what stitch_clips wrote into the combined file, in order
    uploaded,       \* whether the combined file went to the summary service
    runResp,        \* the response of the run
    \* the server: upload requests over the shared working directories
    clipFs,         \* CLIP_DIR: [name |-> clip number, owner |-> run that wrote it]
    frameFs,        \* FRAME_DIR: frame numbers of the frame_{idx:06d}.jpg files
    gtFs,           \* GROUND_TRUTH: keys of the {key}_groundtruth.png files
    topFs,          \* working directory: [name |-> characters, owner |-> run]
    origFs,         \* ORIGINAL_DIR: [name |-> filename, owner |-> run, saved |-> written]
    upState,        \* per request: "idle" | "awaiting" | "done" | "failed"
    upFile,         \* per request: IN_VIDEO.filename
    upResp,         \* per request: the response
    delFailed       \* per request: whether an os.remove of its sweep raised

segVars   == <<segInput, timestamps, gap, segs, segPc>>
rangeVars == <<reqEndpoint, reqExists, reqSize, reqRange, resp, rangePc>>
runVars   == <<runPc, fps, total, idx, prev, flow, times, segments, srcOpenable,
               clip_files, clipDir, parts, uploaded, runResp>>
srvVars   == <<clipFs, frameFs, gtFs, topFs, origFs, upState, upFile, upResp,
               delFailed>>
vars      == <<segVars, rangeVars, runVars, srvVars>>

(***************************************************************************)
(* Bounds of the model.                                                    *)
(***************************************************************************)
MaxLen     == 4   \* longest timestamp list enumerated
MaxTick    == 5   \* largest timestamp enumerated (in ticks)
MaxGap     == 2   \* largest gap tolerance enumerated (in ticks)
MaxTailLen == 4   \* longest enumerated text after the header's unit prefix
MaxSize    == 3   \* largest enumerated file size in bytes
LargeSize  == 150 \* one file larger than the ranges of the example headers
MaxFrames  == 8   \* most frames a video decodes to
MaxTotal   == 8   \* largest frame count a container reports
MaxFps     == 2   \* largest frame rate a container reports
MaxFlow    == 2   \* largest mean flow magnitude, in tenths
MaxRuns    == 2   \* upload requests handled by the server process

Range(f) == {f[i] : i \in DOMAIN f}
Min(a, b) == IF a <= b THEN a ELSE b
Max(a, b) == IF a >= b THEN a ELSE b
SeqsUpTo(S, n) == UNION {[1..k -> S] : k \in 0..n}

(***************************************************************************)
(* find_abnormal_segments (fyp.py 111-124, main.py 80-92).                 *)
(* Timestamps are whole numbers of ticks (half seconds in the example of   *)
(* the design text), so t - e is exact.                                    *)
(***************************************************************************)

\* list.sort(): ascending, duplicates kept
RECURSIVE InsertSorted(_, _)
InsertSorted(x, s) ==
    IF s = <<>> THEN <<x>>
    ELSE IF x <= Head(s) THEN <<x>> \o s
    ELSE <<Head(s)>> \o InsertSorted(x, Tail(s))

RECURSIVE ListSortAscending(_)
ListSortAscending(s) ==
    IF s = <<>> THEN <<>> ELSE InsertSorted(Head(s), ListSortAscending(Tail(s)))

\* mutant: the sort is skipped
ListSortSkipped(s) == s

ListSort(s) == ListSortAscending(s)

\* mutant: strict comparison
MergesStrict(t, e, g) == t - e < g

\* `if t - e <= gap`
Merges(t, e, g) == t - e <= g

\* the for loop over timestamps[1:] and the final segs.append((s, e))
RECURSIVE SegLoop(_, _, _, _, _)
SegLoop(rest, acc, s, e, g) ==
    IF rest = <<>> THEN Append(acc, <<s, e>>)
    ELSE LET t == Head(rest) IN
         IF Merges(t, e, g)
         THEN SegLoop(Tail(rest), acc, s, t, g)
         ELSE SegLoop(Tail(rest), Append(acc, <<s, e>>), t, t, g)

find_abnormal_segments(ts, g) ==
    IF ts = <<>> THEN <<>>
    ELSE LET sorted == ListSort(ts) IN
         SegLoop(Tail(sorted), <<>>, sorted[1], sorted[1], g)

\* the example of the design text, [1.0, 2.5, 3.0, 10.0] with gap 4.0, in half seconds
ExampleTimestamps == <<2, 5, 6, 20>>
ExampleGap        == 2 * 4

SegInit ==
    /\ \/ /\ segInput \in SeqsUpTo(0..MaxTick, MaxLen)
          /\ gap \in 0..MaxGap
       \/ /\ segInput = ExampleTimestamps
          /\ gap = ExampleGap
    /\ timestamps = segInput
    /\ segs = <<>>
    /\ segPc = "ready"

SegOff ==
    /\ segInput = <<>>
    /\ timestamps = <<>>
    /\ gap = 0
    /\ segs = <<>>
    /\ segPc = "off"

\* one call; the caller's list is left sorted (timestamps.sort() is in place)
SegCall ==
    /\ segPc = "ready"
    /\ segs' = find_abnormal_segments(timestamps, gap)
    /\ timestamps' = IF timestamps = <<>> THEN timestamps ELSE ListSort(timestamps)
    /\ segPc' = "done"
    /\ UNCHANGED <<segInput, gap>>

(***************************************************************************)
(* _range_file, get_original, get_clip (fyp.py 320-328, 343-371).          *)
(* A Range header is a sequence of one-character strings.                  *)
(***************************************************************************)
\* headers.get("range"): None when the request has no Range header
NoHeader    == [present |-> FALSE, text |-> <<>>]
Header(txt) == [present |-> TRUE, text |-> txt]
NoResp   == [status |-> 0]

Digits   == {"0", "1", "2", "3", "4", "5", "6", "7", "8", "9"}
BytesEq  == <<"b", "y", "t", "e", "s", "=">>

DigitVal(c) ==
    CASE c = "0" -> 0 [] c = "1" -> 1 [] c = "2" -> 2 [] c = "3" -> 3
      [] c = "4" -> 4 [] c = "5" -> 5 [] c = "6" -> 6 [] c = "7" -> 7
      [] c = "8" -> 8 [] c = "9" -> 9

\* int(text) of a non-empty digit string
RECURSIVE ToInt(_)
ToInt(d) ==
    IF d = <<>> THEN 0
    ELSE 10 * ToInt(SubSeq(d, 1, Len(d) - 1)) + DigitVal(d[Len(d)])

\* number of digits of h starting at position i (a greedy \d* )
RECURSIVE DigitRun(_, _)
DigitRun(h, i) ==
    IF i <= Len(h) /\ h[i] \in Digits THEN 1 + DigitRun(h, i + 1) ELSE 0

\* re.match(r"bytes=(\d+)-(\d*)", range_header): anchored at the start only
ReMatch(h) ==
    LET n1 == DigitRun(h, 7)
        n2 == DigitRun(h, 8 + n1)
    IN  IF /\ Len(h) >= 6
           /\ SubSeq(h, 1, 6) = BytesEq
           /\ n1 >= 1
           /\ Len(h) >= 7 + n1
           /\ h[7 + n1] = "-"
        THEN [matched |-> TRUE,
              g1 |-> SubSeq(h, 7, 6 + n1),
              g2 |-> SubSeq(h, 8 + n1, 7 + n1 + n2)]
        ELSE [matched |-> FALSE, g1 |-> <<>>, g2 |-> <<>>]

\* mutant: the clamp `end = min(end, file_size - 1)` is missing
RangeEndUnclamped(g2, size) ==
    IF g2 # <<>> THEN ToInt(g2) ELSE size - 1

\* end = int(m.group(2)) if m.group(2) else file_size - 1; end = min(end, file_size - 1)
RangeEnd(g2, size) ==
    Min(IF g2 # <<>> THEN ToInt(g2) ELSE size - 1, size - 1)

\* bytes yielded by iterfile(): seek(start), then read until `remaining` is used up
\* or read() returns nothing (end of file)
IterFileBytes(start, length, size) ==
    Max(0, Min(length, Max(0, size - start)))

\* FileResponse(path): the whole file
FileResponse(size) ==
    [status |-> 200, contentLength |-> size, body |-> size]

HTTPException(code) == [status |-> code]

PartialResponse(start, end, size) ==
    LET length == end - start + 1 IN
    [status        |-> 206,
     contentRange  |-> <<start, end, size>>,
     acceptRanges  |-> "bytes",
     contentLength |-> length,
     body          |-> IterFileBytes(start, length, size)]

\* mutant: the range header is looked at before the existence check
RangeFileLateCheck(exists, size, header) ==
    IF header.present /\ header.text # <<>> /\ ReMatch(header.text).matched
    THEN PartialResponse(ToInt(ReMatch(header.text).g1),
                         RangeEnd(ReMatch(header.text).g2, size), size)
    ELSE IF ~exists THEN HTTPException(404) ELSE FileResponse(size)

RangeFile(exists, size, header) ==
    IF ~exists THEN HTTPException(404)
    ELSE IF header.present /\ header.text # <<>> /\ ReMatch(header.text).matched
    THEN PartialResponse(ToInt(ReMatch(header.text).g1),
                         RangeEnd(ReMatch(header.text).g2, size), size)
    ELSE FileResponse(size)

\* headers enumerated: a unit prefix followed by a short text, and the examples
\* of the design text
TailChars == {"0", "1", "3", "-", ","}
Prefixes  == {<<>>, BytesEq, <<"b", "i", "t", "s", "=">>}
ExampleHeaders ==
    { BytesEq \o <<"0", "-", "9", "9">>,
      BytesEq \o <<"-", "5", "0", "0">>,
      BytesEq \o <<"0", "-", "9", "9", ",", "2", "0", "0", "-", "2", "9", "9">>,
      BytesEq \o <<"1", "5", "0", "-">>,
      BytesEq \o <<"1", "0", "-", "5", "0", "0">> }
Headers ==
    {NoHeader}
      \cup {Header(p \o t) : p \in Prefixes, t \in SeqsUpTo(TailChars, MaxTailLen)}
      \cup {Header(t) : t \in ExampleHeaders}

RangeInit ==
    /\ reqEndpoint \in {"originals", "clips"}
    /\ reqExists \in BOOLEAN
    /\ reqSize \in IF reqExists THEN (0..MaxSize) \cup {LargeSize} ELSE {0}
    /\ reqRange \in Headers
    /\ resp = NoResp
    /\ rangePc = "request"

RangeOff ==
    /\ reqEndpoint = "off"
    /\ reqExists = FALSE
    /\ reqSize = 0
    /\ reqRange = NoHeader
    /\ resp = NoResp
    /\ rangePc = "off"

\* GET /originals/{filename}
get_original ==
    /\ rangePc = "request"
    /\ reqEndpoint = "originals"
    /\ resp' = RangeFile(reqExists, reqSize, reqRange)
    /\ rangePc' = "served"
    /\ UNCHANGED <<reqEndpoint, reqExists, reqSize, reqRange>>

\* GET /clips/{filename}
get_clip ==
    /\ rangePc = "request"
    /\ reqEndpoint = "clips"
    /\ resp' = RangeFile(reqExists, reqSize, reqRange)
    /\ rangePc' = "served"
    /\ UNCHANGED <<reqEndpoint, reqExists, reqSize, reqRange>>

(***************************************************************************)
(* process_video, fyp.py 212-318 (main(), main.py 183-283, is the same     *)
(* pipeline).  A time of x seconds is held as x * fps ticks, so that       *)
(* idx / fps is the tick idx, MARGIN_S is MARGIN_S * fps ticks and         *)
(* vlen = total / fps is the tick total.                                   *)
(***************************************************************************)
MARGIN_S == 5
GAP_S    == 4
RAFT_TH  == 1      \* 0.1, in tenths

\* mutant: the threshold itself counts as anomalous
AnomalousInclusive(m) == m >= RAFT_TH

\* `if np.mean(np.linalg.norm(flow, axis=-1)) > RAFT_TH`
Anomalous(m) == m > RAFT_TH

\* fps = cap.get(cv2.CAP_PROP_FPS) or 30.0
FpsOr30(reported) == IF reported = 0 THEN 30 ELSE reported

\* vlen = total / fps, in ticks
Vlen(tot, f) == tot

\* mutant: the clip end is not clamped to the video length
ClipEndUnclamped(e, f, vlen) == e + MARGIN_S * f

\* start = max(0, s - MARGIN_S)
ClipStart(st, f) == Max(0, st - MARGIN_S * f)

\* end = min(vlen, e + MARGIN_S)
ClipEnd(e, f, vlen) == Min(vlen, e + MARGIN_S * f)

\* the title card text of a segment, f"{s:.1f}s to {e:.1f}s"
TitleCard(seg) == [kind |-> "title", seg |-> seg]
ClipPart(i)    == [kind |-> "clip", clip |-> i]

\* parts of stitch_clips: title, clip, title, clip, ... over zip(clips, segments)
RECURSIVE StitchParts(_)
StitchParts(cf) ==
    IF cf = <<>> THEN <<>>
    ELSE <<TitleCard(Head(cf).seg), ClipPart(Head(cf).file)>> \o StitchParts(Tail(cf))

RunInit ==
    /\ runPc = "open"
    /\ fps = 0
    /\ total = 0
    /\ idx = 0
    /\ prev = FALSE
    /\ flow = 0
    /\ times = <<>>
    /\ segments = <<>>
    /\ srcOpenable = TRUE
    /\ clip_files = <<>>
    /\ clipDir = {}
    /\ parts = <<>>
    /\ uploaded = FALSE
    /\ runResp = NoResp

RunOff ==
    /\ runPc = "off"
    /\ fps = 0
    /\ total = 0
    /\ idx = 0
    /\ prev = FALSE
    /\ flow = 0
    /\ times = <<>>
    /\ segments = <<>>
    /\ srcOpenable = TRUE
    /\ clip_files = <<>>
    /\ clipDir = {}
    /\ parts = <<>>
    /\ uploaded = FALSE
    /\ runResp = NoResp

\* cap = cv2.VideoCapture(orig_path); if not cap.isOpened(): raise HTTPException(400)
OpenInvalid ==
    /\ runPc = "open"
    /\ runPc' = "error"
    /\ runResp' = HTTPException(400)
    /\ UNCHANGED <<fps, total, idx, prev, flow, times, segments, srcOpenable,
                   clip_files, clipDir, parts, uploaded>>

\* the capture opens: fps, total, vlen, the writer; prev, times, idx = None, [], 0
OpenVideo ==
    /\ runPc = "open"
    /\ \E reported \in 0..MaxFps : fps' = FpsOr30(reported)
    /\ total' \in 0..MaxTotal
    /\ idx' = 0
    /\ prev' = FALSE
    /\ times' = <<>>
    /\ runPc' = "loop"
    /\ UNCHANGED <<flow, segments, srcOpenable, clip_files, clipDir, parts,
                   uploaded, runResp>>

\* one pass of the while loop with ok true: the first frame has no predecessor
ReadFirstFrame ==
    /\ runPc = "loop"
    /\ idx < MaxFrames
    /\ ~prev
    /\ idx' = idx + 1
    /\ prev' = TRUE
    /\ UNCHANGED <<runPc, fps, total, flow, times, segments, srcOpenable,
                   clip_files, clipDir, parts, uploaded, runResp>>

\* one pass of the while loop with ok true and a predecessor: the flow of the
\* pair is compared with the threshold
ReadFrame ==
    /\ runPc = "loop"
    /\ idx < MaxFrames
    /\ prev
    /\ idx' = idx + 1
    /\ \E m \in 0..MaxFlow :
          /\ flow' = m
          /\ times' = IF Anomalous(m) THEN Append(times, idx + 1) ELSE times
    /\ UNCHANGED <<runPc, fps, total, prev, segments, srcOpenable,
                   clip_files, clipDir, parts, uploaded, runResp>>

\* cap.read() fails: the loop ends, capture and writer are released, and the
\* timestamps are grouped (find_abnormal_segments sorts `times` in place)
EndOfVideo ==
    /\ runPc = "loop"
    /\ segments' = find_abnormal_segments(times, GAP_S * fps)
    /\ times' = IF times = <<>> THEN times ELSE ListSort(times)
    /\ srcOpenable' \in BOOLEAN
    /\ flow' = 0
    /\ runPc' = "export"
    /\ UNCHANGED <<fps, total, idx, prev, clip_files, clipDir, parts, uploaded,
                   runResp>>

\* one pass of `for i,(s,e) in enumerate(segments, start=1)`: export_clip opens
\* the source without checking it, creates the destination writer, copies
\* frames while reads succeed, and returns
ExportClip ==
    /\ runPc = "export"
    /\ Len(clip_files) < Len(segments)
    /\ LET i   == Len(clip_files) + 1
           seg == segments[i]
       IN  /\ clip_files' = Append(clip_files,
                                   [file  |-> i,
                                    seg   |-> seg,
                                    start |-> ClipStart(seg[1], fps),
                                    end   |-> ClipEnd(seg[2], fps, Vlen(total, fps))])
           /\ clipDir' = clipDir \cup {i}
    /\ UNCHANGED <<runPc, fps, total, idx, prev, flow, times, segments,
                   srcOpenable, parts, uploaded, runResp>>

\* the for loop is over
ExportDone ==
    /\ runPc = "export"
    /\ Len(clip_files) = Len(segments)
    /\ runPc' = "summarize"
    /\ UNCHANGED <<fps, total, idx, prev, flow, times, segments, srcOpenable,
                   clip_files, clipDir, parts, uploaded, runResp>>

\* mutant: the stitch-and-upload branch is taken for every run
HasClipsAlways(cf) == TRUE

\* `if clip_files:`
HasClips(cf) == cf # <<>>

\* `if clip_files:` stitch, upload, summarize; then the JSON response
Summarize ==
    /\ runPc = "summarize"
    /\ parts' = IF HasClips(clip_files) THEN StitchParts(clip_files) ELSE parts
    /\ uploaded' = HasClips(clip_files)
    /\ runResp' = [status       |-> 200,
                   clips        |-> [k \in DOMAIN clip_files |-> clip_files[k].file],
                   summary_file |-> IF HasClips(clip_files) THEN "summaries.json" ELSE ""]
    /\ runPc' = "done"
    /\ UNCHANGED <<fps, total, idx, prev, flow, times, segments, srcOpenable,
                   clip_files, clipDir>>

\* inside the `if clip_files:` branch the combined file is stitched and then
\* gclient.files.upload or gclient.models.generate_content raises: nothing
\* catches it and the request fails
SummarizeFails ==
    /\ runPc = "summarize"
    /\ HasClips(clip_files)
    /\ parts' = StitchParts(clip_files)
    /\ uploaded' \in BOOLEAN
    /\ runResp' = HTTPException(500)
    /\ runPc' = "error"
    /\ UNCHANGED <<fps, total, idx, prev, flow, times, segments, srcOpenable,
                   clip_files, clipDir>>

(***************************************************************************)
(* clean_dirs and process_video over the filesystem (fyp.py 55-64,         *)
(* 189-318).  The event loop runs one request at a time; a request is      *)
(* suspended only at `await IN_VIDEO.read()`.  The ts_*.mp4 title cards    *)
(* that create_timestamp_clip leaves in the working directory are not      *)
(* held: no sweep matches them and only the stitch that wrote them reads   *)
(* them.                                                                   *)
(***************************************************************************)
Runs == 1..MaxRuns

EXT           == <<".", "m", "p", "4">>
ProcessedPfx  == <<"p", "r", "o", "c", "e", "s", "s", "e", "d", "_">>
CombinedPfx   == <<"c", "o", "m", "b", "i", "n", "e", "d", "_">>
SummariesJson == <<"s", "u", "m", "m", "a", "r", "i", "e", "s", ".", "j", "s", "o", "n">>

\* uploads: a.avi, ab.avi, b.avi (request.py uploads an .avi)
UploadNames == { <<"a", ".", "a", "v", "i">>,
                 <<"a", "b", ".", "a", "v", "i">>,
                 <<"b", ".", "a", "v", "i">> }

\* what the frame loop finds in an upload: the anomalous frame numbers at 1 fps
\* (none, one, two that merge, two further apart than the gap)
SampleVideos == { <<>>, <<2>>, <<2, 3>>, <<2, 2 + GAP_S + 1>> }
SampleFps    == 1

\* position of the last "." of a name that has a non-"." character before it, else 0
RECURSIVE LastDot(_, _)
LastDot(name, i) ==
    IF i <= 1 THEN 0
    ELSE IF name[i] = "." /\ \E j \in 1..(i - 1) : name[j] # "." THEN i
    ELSE LastDot(name, i - 1)

\* key = os.path.splitext(IN_VIDEO.filename)[0]
SplitExtRoot(name) ==
    LET d == LastDot(name, Len(name)) IN
    IF d = 0 THEN name ELSE SubSeq(name, 1, d - 1)

\* str.startswith
StartsWith(str, pfx) ==
    Len(pfx) <= Len(str) /\ SubSeq(str, 1, Len(pfx)) = pfx

OutFull(key)     == ProcessedPfx \o key \o EXT
OutCombined(key) == CombinedPfx \o key \o EXT

\* mutant: only the two files of the key itself are matched
SweepMatchesExact(name, key) ==
    name = OutFull(key) \/ name = OutCombined(key)

\* f.startswith(f"processed_{key}") or f.startswith(f"combined_{key}")
SweepMatches(name, key) ==
    StartsWith(name, ProcessedPfx \o key) \/ StartsWith(name, CombinedPfx \o key)

\* the subsets of S a sweep of S has removed when one of its os.remove calls raises
RemovedBeforeFailure(S) == {R \in SUBSET S : R # S}

\* mutant: a failing os.remove is swallowed and the sweep carries on
SweepOutcomesBestEffort(clips, frames, gts, top, key) ==
    LET hit == {e \in top : SweepMatches(e.name, key)} IN
    { [failed |-> (R1 # clips \/ R2 # frames \/ R3 # gts \/ R4 # hit),
       raised |-> FALSE,
       clip |-> clips \ R1, frame |-> frames \ R2, gt |-> gts \ R3,
       top |-> top \ R4] :
        R1 \in SUBSET clips, R2 \in SUBSET frames, R3 \in SUBSET gts,
        R4 \in SUBSET hit }

\* clean_dirs(key): the three directories are emptied in turn, then the matching
\* top-level files are removed; any os.remove may raise, and nothing catches it
\* (failed: an os.remove raised; raised: the exception left clean_dirs)
SweepOutcomes(clips, frames, gts, top, key) ==
    LET hit == {e \in top : SweepMatches(e.name, key)}
        Stopped(c, f, g, t) ==
            [failed |-> TRUE, raised |-> TRUE, clip |-> c, frame |-> f, gt |-> g, top |-> t]
    IN
    { [failed |-> FALSE, raised |-> FALSE,
       clip |-> {}, frame |-> {}, gt |-> {}, top |-> top \ hit] }
    \cup { Stopped(clips \ R, frames, gts, top) : R \in RemovedBeforeFailure(clips) }
    \cup { Stopped({}, frames \ R, gts, top) : R \in RemovedBeforeFailure(frames) }
    \cup { Stopped({}, {}, gts \ R, top) : R \in RemovedBeforeFailure(gts) }
    \cup { Stopped({}, {}, {}, top \ R) : R \in RemovedBeforeFailure(hit) }

\* a file written (created or replaced) by run r
WriteFile(dir, name, r) ==
    {e \in dir : e.name # name} \cup {[name |-> name, owner |-> r]}

\* the clips clip_01 .. clip_n written by run r
WriteClips(dir, n, r) ==
    {e \in dir : e.name \notin 1..n} \cup {[name |-> i, owner |-> r] : i \in 1..n}

\* open(orig_path, "wb") and, once saved is true, f.write(...)
WriteOriginal(dir, name, r, saved) ==
    {e \in dir : e.name # name} \cup {[name |-> name, owner |-> r, saved |-> saved]}

\* the files a completed run of upload `name` with anomalies `video` leaves behind
ClipsOf(video) == Len(find_abnormal_segments(video, GAP_S * SampleFps))

TopAfterRun(top, key, video, r) ==
    IF ClipsOf(video) = 0
    THEN WriteFile(top, OutFull(key), r)
    ELSE WriteFile(WriteFile(WriteFile(top, OutFull(key), r), OutCombined(key), r),
                   SummariesJson, r)

\* the directories at start-up: empty, or as a run of an earlier server process
\* (owner 0) left them
SrvInit ==
    /\ \/ /\ clipFs = {}
          /\ frameFs = {}
          /\ gtFs = {}
          /\ topFs = {}
          /\ origFs = {}
       \/ \E name \in UploadNames, video \in SampleVideos :
             /\ clipFs = WriteClips({}, ClipsOf(video), 0)
             /\ frameFs = Range(video)
             /\ gtFs = {SplitExtRoot(name)}
             /\ topFs = TopAfterRun({}, SplitExtRoot(name), video, 0)
             /\ origFs = WriteOriginal({}, name, 0, TRUE)
    /\ upState = [r \in Runs |-> "idle"]
    /\ upFile = [r \in Runs |-> <<>>]
    /\ upResp = [r \in Runs |-> NoResp]
    /\ delFailed = [r \in Runs |-> FALSE]

SrvOff ==
    /\ clipFs = {}
    /\ frameFs = {}
    /\ gtFs = {}
    /\ topFs = {}
    /\ origFs = {}
    /\ upState = <<>>
    /\ upFile = <<>>
    /\ upResp = <<>>
    /\ delFailed = <<>>

\* POST /process_video/ up to the await: key, clean_dirs(key), open(orig_path, "wb")
\* (requests are numbered in the order they arrive)
BeginUpload(r, name) ==
    /\ upState[r] = "idle"
    /\ \A q \in Runs : q < r => upState[q] # "idle"
    /\ upFile' = [upFile EXCEPT ![r] = name]
    /\ \E o \in SweepOutcomes(clipFs, frameFs, gtFs, topFs, SplitExtRoot(name)) :
          /\ clipFs' = o.clip
          /\ frameFs' = o.frame
          /\ gtFs' = o.gt
          /\ topFs' = o.top
          /\ delFailed' = [delFailed EXCEPT ![r] = o.failed]
          /\ IF ~o.raised
             THEN /\ origFs' = WriteOriginal(origFs, name, r, FALSE)
                  /\ upState' = [upState EXCEPT ![r] = "awaiting"]
                  /\ upResp' = upResp
             ELSE /\ origFs' = origFs
                  /\ upState' = [upState EXCEPT ![r] = "failed"]
                  /\ upResp' = [upResp EXCEPT ![r] = HTTPException(500)]

\* the rest of process_video, from the write of the upload to the response
FinishUpload(r) ==
    /\ upState[r] = "awaiting"
    /\ LET name == upFile[r]
           key  == SplitExtRoot(name)
           saved == WriteOriginal(origFs, name, r, TRUE)
       IN
       \/ \* plot_and_save_ground_truth_labels raises (no labels for the key)
          /\ origFs' = saved
          /\ upState' = [upState EXCEPT ![r] = "failed"]
          /\ upResp' = [upResp EXCEPT ![r] = HTTPException(500)]
          /\ UNCHANGED <<clipFs, frameFs, gtFs, topFs>>
       \/ \* not cap.isOpened()
          /\ origFs' = saved
          /\ gtFs' = gtFs \cup {key}
          /\ upState' = [upState EXCEPT ![r] = "failed"]
          /\ upResp' = [upResp EXCEPT ![r] = HTTPException(400)]
          /\ UNCHANGED <<clipFs, frameFs, topFs>>
       \/ \* the video is processed
          \E video \in SampleVideos :
             /\ origFs' = saved
             /\ gtFs' = gtFs \cup {key}
             /\ frameFs' = frameFs \cup Range(video)
             /\ clipFs' = WriteClips(clipFs, ClipsOf(video), r)
             /\ topFs' = TopAfterRun(topFs, key, video, r)
             /\ upState' = [upState EXCEPT ![r] = "done"]
             /\ upResp' = [upResp EXCEPT ![r] =
                              [status       |-> 200,
                               clips        |-> [i \in 1..ClipsOf(video) |-> i],
                               summary_file |-> IF ClipsOf(video) > 0
                                                THEN "summaries.json" ELSE ""]]
    /\ UNCHANGED <<upFile, delFailed>>

(***************************************************************************)
(* Specifications.                                                         *)
(***************************************************************************)
SegNext == SegCall /\ UNCHANGED <<rangeVars, runVars, srvVars>>

SegSpecInit == SegInit /\ RangeOff /\ RunOff /\ SrvOff

SegSpec == SegSpecInit /\ [][SegNext]_vars

RangeNext ==
    \/ get_original /\ UNCHANGED <<segVars, runVars, srvVars>>
    \/ get_clip /\ UNCHANGED <<segVars, runVars, srvVars>>

RangeSpecInit == RangeInit /\ SegOff /\ RunOff /\ SrvOff

RangeSpec == RangeSpecInit /\ [][RangeNext]_vars

RunNext ==
    \/ OpenInvalid /\ UNCHANGED <<segVars, rangeVars, srvVars>>
    \/ OpenVideo /\ UNCHANGED <<segVars, rangeVars, srvVars>>
    \/ ReadFirstFrame /\ UNCHANGED <<segVars, rangeVars, srvVars>>
    \/ ReadFrame /\ UNCHANGED <<segVars, rangeVars, srvVars>>
    \/ EndOfVideo /\ UNCHANGED <<segVars, rangeVars, srvVars>>
    \/ ExportClip /\ UNCHANGED <<segVars, rangeVars, srvVars>>
    \/ ExportDone /\ UNCHANGED <<segVars, rangeVars, srvVars>>
    \/ Summarize /\ UNCHANGED <<segVars, rangeVars, srvVars>>
    \/ SummarizeFails /\ UNCHANGED <<segVars, rangeVars, srvVars>>

RunSpecInit == RunInit /\ SegOff /\ RangeOff /\ SrvOff

RunSpec == RunSpecInit /\ [][RunNext]_vars

ServerNext ==
    \/ \E r \in Runs, name \in UploadNames :
          BeginUpload(r, name) /\ UNCHANGED <<segVars, rangeVars, runVars>>
    \/ \E r \in Runs :
          FinishUpload(r) /\ UNCHANGED <<segVars, rangeVars, runVars>>

ServerSpecInit == SrvInit /\ SegOff /\ RangeOff /\ RunOff

ServerSpec == ServerSpecInit /\ [][ServerNext]_vars

(***************************************************************************)
(* Claims about find_abnormal_segments (SegSpec).                          *)
(***************************************************************************)
Covers(seg, t) == seg[1] <= t /\ t <= seg[2]
SameSegment(a, b) == \E j \in DOMAIN segs : Covers(segs[j], a) /\ Covers(segs[j], b)
\* a and b are neighbours among the input values
AdjacentInputs(a, b) ==
    /\ a \in Range(segInput)
    /\ b \in Range(segInput)
    /\ a <= b
    /\ ~ \E c \in Range(segInput) : a < c /\ c < b

\* C1: for every input list (any order, duplicates allowed) and every gap
\* tolerance g >= 0 the returned segments have start <= end, strictly
\* increasing starts, and each next start exceeds the previous end by more
\* than g.
C1_SegmentsOrderedAndSeparated ==
    segPc = "done" =>
        /\ \A i \in DOMAIN segs : segs[i][1] <= segs[i][2]
        /\ \A i \in 1..(Len(segs) - 1) :
              /\ segs[i + 1][1] > segs[i][1]
              /\ segs[i + 1][1] - segs[i][2] > gap

\* an unsorted input with a duplicate that splits into two segments
C1_Witness ==
    /\ segPc = "done"
    /\ Len(segs) >= 2
    /\ segInput # timestamps
    /\ Cardinality(Range(segInput)) < Len(segInput)

\* C2: the result is the gap-merge of the input whatever its order: every
\* input timestamp lies in exactly one segment, segment ends are input
\* timestamps, neighbouring input values share a segment iff they differ by
\* at most g, the empty list gives no segment, a single timestamp t gives
\* [(t,t)], and [1.0, 2.5, 3.0, 10.0] with g = 4.0 gives [(1.0,3.0),(10.0,10.0)].
C2_GapMergeOfInput ==
    segPc = "done" =>
        /\ \A t \in Range(segInput) :
              Cardinality({j \in DOMAIN segs : Covers(segs[j], t)}) = 1
        /\ \A j \in DOMAIN segs :
              segs[j][1] \in Range(segInput) /\ segs[j][2] \in Range(segInput)
        /\ \A a, b \in Range(segInput) :
              AdjacentInputs(a, b) => (SameSegment(a, b) <=> b - a <= gap)
        /\ segInput = <<>> => segs = <<>>
        /\ Len(segInput) = 1 => segs = << <<segInput[1], segInput[1]>> >>
        /\ (segInput = ExampleTimestamps /\ gap = ExampleGap)
              => segs = << <<2, 6>>, <<20, 20>> >>

\* a descending input whose values merge into one segment and split off another
C2_Witness ==
    /\ segPc = "done"
    /\ Len(segInput) = 3
    /\ segInput[1] > segInput[2]
    /\ segInput[2] > segInput[3]
    /\ Len(segs) = 2
    /\ \E j \in DOMAIN segs : segs[j][1] < segs[j][2]

(***************************************************************************)
(* Claims about the range-serving endpoints (RangeSpec).                   *)
(***************************************************************************)
DigitsOnly(s) == \A i \in DOMAIN s : s[i] \in Digits

\* position of the "-" when the whole header text is bytes=<digits>-<digits?>, else 0
DashOfSingleRange(h) ==
    IF /\ h.present
       /\ Len(h.text) >= 8
       /\ SubSeq(h.text, 1, 6) = BytesEq
       /\ \E i \in 8..Len(h.text) :
             /\ h.text[i] = "-"
             /\ DigitsOnly(SubSeq(h.text, 7, i - 1))
             /\ DigitsOnly(SubSeq(h.text, i + 1, Len(h.text)))
    THEN CHOOSE i \in 8..Len(h.text) :
             /\ h.text[i] = "-"
             /\ DigitsOnly(SubSeq(h.text, 7, i - 1))
             /\ DigitsOnly(SubSeq(h.text, i + 1, Len(h.text)))
    ELSE 0

SingleRangeForm(h) == DashOfSingleRange(h) # 0

\* C3: a Range header bytes=<start>-<end?> on an existing file of size N is
\* answered 206 with Accept-Ranges: bytes, Content-Range: bytes start-end'/N
\* and Content-Length end'-start+1, where end' is N-1 when <end> is omitted
\* and the smaller of <end> and N-1 otherwise; bytes=0-99 on a file of at
\* least 100 bytes gives bytes 0-99/N and a body of 100 bytes.
C3_PartialResponseHeaders ==
    (rangePc = "served" /\ reqExists /\ SingleRangeForm(reqRange)) =>
        LET d      == DashOfSingleRange(reqRange)
            txt    == reqRange.text
            start  == ToInt(SubSeq(txt, 7, d - 1))
            endTxt == SubSeq(txt, d + 1, Len(txt))
            endC   == IF endTxt = <<>> THEN reqSize - 1
                      ELSE IF ToInt(endTxt) <= reqSize - 1 THEN ToInt(endTxt)
                      ELSE reqSize - 1
        IN  /\ resp.status = 206
            /\ resp.acceptRanges = "bytes"
            /\ resp.contentRange = <<start, endC, reqSize>>
            /\ resp.contentLength = endC - start + 1
            /\ (txt = BytesEq \o <<"0", "-", "9", "9">> /\ reqSize >= 100)
                  => /\ resp.contentRange = <<0, 99, reqSize>>
                     /\ resp.body = 100

\* a request whose <end> lies beyond the end of the file
C3_Witness ==
    /\ rangePc = "served"
    /\ reqExists
    /\ SingleRangeForm(reqRange)
    /\ reqSize >= 2
    /\ resp.status = 206
    /\ ToInt(SubSeq(reqRange.text, DashOfSingleRange(reqRange) + 1,
                    Len(reqRange.text))) > reqSize - 1
    /\ resp.contentRange[1] <= resp.contentRange[2]
    /\ resp.contentRange[2] = reqSize - 1

\* C4: on an existing file a request without a Range header, or with one
\* that is not a single byte range (malformed, bytes=-500, or several ranges
\* such as bytes=0-99,200-299), gets the full file with status 200 and a body
\* of N bytes, never a 206 and never an error.
C4_NonSingleRangeGetsFullFile ==
    (rangePc = "served" /\ reqExists /\ ~SingleRangeForm(reqRange)) =>
        /\ resp.status = 200
        /\ resp.body = reqSize

\* C5: both endpoints check that the file exists first: a missing file is
\* answered 404 whatever the Range header, never 200 or 206.
C5_MissingFileIs404 ==
    (rangePc = "served" /\ ~reqExists) => resp.status = 404

\* a missing clip requested with a well-formed single range
C5_Witness ==
    /\ rangePc = "served"
    /\ ~reqExists
    /\ reqEndpoint = "clips"
    /\ SingleRangeForm(reqRange)
    /\ resp.status = 404

\* C13: every 206 response of _range_file is well-formed, for every file
\* size N >= 0 and every parseable Range header: 0 <= start <= end <= N-1,
\* Content-Length is positive, and the number of bytes iterfile streams
\* equals Content-Length (also when start >= N, as in bytes=N-, and when
\* start > end).
C13_PartialResponsesWellFormed ==
    (rangePc = "served" /\ resp.status = 206) =>
        /\ 0 <= resp.contentRange[1]
        /\ resp.contentRange[1] <= resp.contentRange[2]
        /\ resp.contentRange[2] <= reqSize - 1
        /\ resp.contentLength > 0
        /\ resp.body = resp.contentLength

(***************************************************************************)
(* Claims about the processing run (RunSpec).                              *)
(***************************************************************************)

\* C6: every clip a run cuts for a segment (s,e) has start = max(0, s - m)
\* and end = min(L, e + m), L being the reported frame count over fps, and
\* 0 <= start <= end <= L, whatever the reported frame count and the number
\* of frames the loop decoded.
C6_ClipBoundsWithinVideo ==
    \A k \in DOMAIN clip_files :
        LET c == clip_files[k]
            L == Vlen(total, fps)
            lo == c.seg[1] - MARGIN_S * fps
            hi == c.seg[2] + MARGIN_S * fps
        IN  /\ c.start = (IF lo >= 0 THEN lo ELSE 0)
            /\ c.end = (IF hi <= L THEN hi ELSE L)
            /\ 0 <= c.start
            /\ c.start <= c.end
            /\ c.end <= L

\* C9: when the clip extractor cannot open its source video the run ends in
\* a client-visible error, leaves no clip file behind and never stitches.
C9_UnopenableSourceIsFatal ==
    (runPc \in {"done", "error"} /\ ~srcOpenable /\ segments # <<>>) =>
        /\ runResp.status >= 400
        /\ clipDir = {}
        /\ parts = <<>>

\* C11: a run writes and uploads a combined file exactly when its segment
\* list is not empty; the parts written are title_1, clip_1, ..., title_n,
\* clip_n in segment order, title_i showing segment i as found (without the
\* margin) and clip_i being the clip cut for segment i; with no segment
\* nothing is stitched or uploaded and the response has clips = [] and
\* summary_file = "".
C11_CombinedIffSegments ==
    /\ (parts # <<>> \/ uploaded) => segments # <<>>
    /\ runPc = "done" =>
          /\ (parts # <<>>) <=> (segments # <<>>)
          /\ uploaded <=> (segments # <<>>)
          /\ segments # <<>> => Len(parts) = 2 * Len(segments)
          /\ segments # <<>> =>
                \A i \in DOMAIN segments :
                    /\ parts[2 * i - 1].kind = "title"
                    /\ parts[2 * i - 1].seg = segments[i]
                    /\ parts[2 * i].kind = "clip"
                    /\ parts[2 * i].clip = clip_files[i].file
                    /\ clip_files[i].seg = segments[i]
                    /\ clip_files[i].file = i
                    /\ i \in clipDir
          /\ segments = <<>> =>
                /\ runResp.clips = <<>>
                /\ runResp.summary_file = ""

\* a finished run with two segments and its four parts
C11_Witness ==
    /\ runPc = "done"
    /\ Len(segments) = 2
    /\ Len(parts) = 4
    /\ uploaded
    /\ runResp.summary_file = "summaries.json"

\* C12: in the frame loop frame 1 is never classified and adds no
\* timestamp; for every frame idx >= 2 the timestamp idx/fps is recorded if
\* and only if the mean flow magnitude of (frame idx-1, frame idx) is
\* strictly greater than the threshold; so the recorded timestamps are
\* strictly increasing, at most one per frame, and already sorted when they
\* reach the segmenter.
C12_TimestampIffFlowAboveThreshold ==
    /\ [][(runPc = "loop" /\ idx' = idx + 1) =>
            IF idx' = 1
            THEN times' = times
            ELSE /\ flow' > RAFT_TH => times' = Append(times, idx')
                 /\ flow' <= RAFT_TH => times' = times]_vars
    /\ [](/\ \A i \in 1..(Len(times) - 1) : times[i] < times[i + 1]
          /\ \A i \in DOMAIN times : times[i] >= 2 /\ times[i] <= idx
          /\ Len(times) <= idx
          /\ ListSortAscending(times) = times)

\* the loop has ended on a video with anomalous and quiet frames
C12_Witness ==
    /\ runPc = "export"
    /\ Len(times) >= 2
    /\ idx > Len(times) + 1
    /\ times[1] > 2

(***************************************************************************)
(* Claims about cleanup and the shared directories (ServerSpec).           *)
(***************************************************************************)
KeyOf(r) == SplitExtRoot(upFile[r])
Names(dir) == {e.name : e \in dir}

\* C7: once clean_dirs(k) has returned normally, whatever was there before,
\* the clip, frame and ground-truth directories hold no file and the working
\* directory holds no file whose name starts with processed_k or combined_k.
C7_SweepLeavesNothing ==
    [][\A r \in Runs :
          (upState[r] = "idle" /\ upState'[r] = "awaiting") =>
              /\ clipFs' = {}
              /\ frameFs' = {}
              /\ gtFs' = {}
              /\ \A e \in topFs' :
                    /\ ~StartsWith(e.name, ProcessedPfx \o SplitExtRoot(upFile'[r]))
                    /\ ~StartsWith(e.name, CombinedPfx \o SplitExtRoot(upFile'[r]))]_vars

\* a request for a.avi is past its sweep after a run for ab.avi that produced
\* clips has finished: the clips and processed_ab.mp4 are gone
C7_Witness ==
    \E r, q \in Runs :
        /\ upState[r] = "awaiting"
        /\ KeyOf(r) = <<"a">>
        /\ upState[q] = "done"
        /\ KeyOf(q) = <<"a", "b">>
        /\ upResp[q].clips # <<>>
        /\ clipFs = {}
        /\ frameFs = {}
        /\ gtFs = {}
        /\ OutFull(KeyOf(q)) \notin Names(topFs)

\* C8: for any two distinct keys k and k', no step of a request for key k
\* (its cleanup, its processing) removes or changes processed_{k'}.mp4 or
\* combined_{k'}.mp4.
C8_OtherKeysKept ==
    [][\A r \in Runs :
          upState'[r] # upState[r] =>
              \A e \in topFs, n \in UploadNames :
                  ( /\ SplitExtRoot(n) # SplitExtRoot(upFile'[r])
                    /\ e.name \in {OutFull(SplitExtRoot(n)), OutCombined(SplitExtRoot(n))} )
                  => e \in topFs']_vars

\* C10 as stated: a failing delete of the sweep is not propagated, the run
\* goes on to save the upload, process the frames and answer normally.
C10_SweepFailureNotPropagated ==
    \A r \in Runs :
        delFailed[r] => (upState[r] \in {"awaiting", "done"} /\ upResp[r].status # 500)

\* C10, amended: a failing delete of the sweep propagates out of
\* process_video: the request fails with status 500 and the run does not
\* proceed, so it saves no upload and writes no clip, processed or combined
\* file.
C10_SweepFailureFailsRequest ==
    \A r \in Runs :
        delFailed[r] =>
            /\ upState[r] = "failed"
            /\ upResp[r].status = 500
            /\ \A e \in origFs : e.owner # r
            /\ \A e \in clipFs : e.owner # r
            /\ \A e \in topFs : e.owner # r

\* a sweep that failed part-way: one clip is gone, another is still there
C10_Witness ==
    \E r \in Runs :
        /\ delFailed[r]
        /\ upState[r] = "failed"
        /\ Cardinality(clipFs) = 1
        /\ frameFs # {}

\* C14: clips belong to the run that wrote them: at the moment a run returns
\* its response the clip directory holds exactly the clips listed in that
\* response, each written by that run, and no clip of another run, however
\* the upload requests handled by the server interleave at the await.
C14_ClipsBelongToReturningRun ==
    [][\A r \in Runs :
          (upState[r] = "awaiting" /\ upState'[r] = "done") =>
              /\ Names(clipFs') = Range(upResp'[r].clips)
              /\ \A e \in clipFs' : e.owner = r]_vars

====
